---------------------------- MODULE Spec2Model ----------------------------
(***************************************************************************)
(* A model of ext_modules/graphics/init.cpp: the address rebaser           *)
(* (GameState::from_base, segmented_to_virtual), new_renderer and          *)
(* delete_renderer, render (argument decoding, surfaces, object path,      *)
(* transforms, overlay loop) and the display-list interpreter              *)
(* (interpret_display_list).                                               *)
(*                                                                         *)
(* Addresses are byte addresses, modelled as naturals.  A 32-bit opcode    *)
(* word w0 is the tuple of its four bytes, most significant first, so that *)
(* the shifts and masks of the source are byte selections; an operand word *)
(* w1 is a natural below 2^24.                                             *)
(***************************************************************************)
EXTENDS Integers, Sequences, FiniteSets, TLC

VARIABLES
  segTable,         \* st->sSegmentTable: 32 descriptors
  segAddr,          \* the addr argument of segmented_to_virtual
  segOut,           \* outcome of segmented_to_virtual: pending / returned / aborted
  rbState,          \* the GameState (base, data) from_base is called on
  rbAddr,           \* the addr argument of from_base
  rbOut,            \* outcome of from_base
  st,               \* the GameState passed to interpret_display_list
  mem,              \* the command words read so far: address -> [w0, w1]
  dlStack,          \* the dl cursor of every active interpret_display_list call, outermost first
  status,           \* of the top-level interpretation: idle / running / returned / aborted
  loaded_vertices,  \* the storage of the global vector: slot -> position
  vecSize,          \* loaded_vertices.size()
  hardened,         \* whether the build checks vector indices (an out-of-range index aborts)
  draws,            \* the GL_LINE_LOOP draws issued, oldest first
  steps,            \* commands executed
  info,             \* render's decoded arguments: current_state and path_states
  gMarioObject,     \* st.data->gMarioObject
  unk14,            \* st.data->gDisplayLists.unk14: 8 chains of nodes, each in link order
  scene,            \* scene.object_paths as built so far
  renderPc,         \* where render is: idle / start / overlay / returned
  listIdx,          \* i of the loop of line 477
  nodeIdx,          \* how many nodes of chain i the loop of line 479 has passed
  surfacePool,      \* the gSurfacesAllocated surfaces of st.data's pool: their normals
  surfaces,         \* scene.surfaces as built so far
  camera,           \* info->camera, the camera the caller passes
  renderer,         \* the Renderer of the handle: its matrices, and its render calls so far
  game_view_matrix, \* the local of line 450
  transforms,       \* the cameras build_transforms was called on in this render call
  decodeOut,        \* read_render_args of this call: pending / none (no failure) / the failed stage
  renderCalls,      \* render calls so far
  stepLimit,        \* how many commands the model lets one interpretation execute
  loaded_gl,        \* the static flag of new_renderer
  renderers,        \* the Renderer objects alive: their addresses
  nrResult,         \* what the last new_renderer call returned
  gladCalls,        \* calls of gladLoadGL so far
  gladLoads,        \* calls of gladLoadGL that succeeded
  calls             \* new_renderer and delete_renderer calls so far

segVars == <<segTable, segAddr, segOut>>
rbVars == <<rbState, rbAddr, rbOut>>
dlVars == <<st, mem, dlStack, status, loaded_vertices, vecSize, hardened, draws, steps>>
renderVars == <<info, gMarioObject, unk14, scene, renderPc, listIdx, nodeIdx>>
sceneVars == <<surfacePool, surfaces, camera, renderer, game_view_matrix, transforms,
               decodeOut, renderCalls>>
glVars == <<loaded_gl, renderers, nrResult, gladCalls, gladLoads, calls>>
vars == <<segVars, rbVars, dlVars, renderVars, sceneVars, glVars, stepLimit>>

(***************************************************************************)
(* Bounds of the model                                                     *)
(***************************************************************************)
\* largest address drawn for a segment descriptor or a segmented address
MaxSegAddr == 3
\* largest image base drawn for from_base
MaxRbBase == 4
\* sizeof(sm64::SM64State) in the model, in bytes
ImageSize == 32
\* st.base and st.data of the interpreted snapshot
RefBase == 64
DataBase == 128
\* the address of a vertex array outside the reference image
StaticVtx == 512
\* commands executed in one run of the model
MaxSteps == 5
\* commands executed in one run on a stream given in full
LongRun == 8
\* longest path_states drawn
MaxHistory == 3
\* largest frame id drawn
MaxFrame == 2
\* largest gQStepsInfo.numSteps drawn
MaxQSteps == 1
\* longest chain of nodes drawn
MaxNodes == 2
\* most surfaces drawn for the pool
MaxSurfaces == 2
\* render calls in one run of the model
MaxRenders == 2
\* new_renderer and delete_renderer calls in one run of the model
MaxCalls == 5
\* addresses operator new can return
MaxHandles == 3
\* addresses of two objects in the reference image
ObjA == 72
ObjB == 80

(***************************************************************************)
(* Program constants                                                       *)
(***************************************************************************)
\* ((void *)0)
NULL == 0
\* the segment table has 32 descriptors
SegTableLen == 32
\* vector<vec3> loaded_vertices(32)
VecCapacity == 32
\* one command is two u32 words
CmdWidth == 8
\* sizeof(sm64::Vtx)
VtxSize == 16
\* gDisplayLists.unk14 has 8 heads
NumLists == 8
\* the thresholds 0.01 and 0.707 of lines 349-353, in units of 10^-9
FloorY == 10000000
WallX == 707000000

Pending == [state |-> "pending"]
Returned(v) == [state |-> "returned", value |-> v]
Aborted == [state |-> "aborted"]

(***************************************************************************)
(* segmented_to_virtual                                                    *)
(***************************************************************************)
\* the test of line 70
SegContains(d, addr) == d.srcStart <= addr /\ addr < d.srcEnd

\* the loop of lines 69-77 from index i (0-based) with the result so far,
\* then lines 78-81
RECURSIVE SegScan(_, _, _, _)
SegScan(table, addr, i, result) ==
  IF i < SegTableLen
  THEN LET d == table[i + 1] IN
       IF SegContains(d, addr)
       THEN IF result # NULL
            THEN Aborted
            ELSE SegScan(table, addr, i + 1, (addr - d.srcStart) + d.dstStart)
       ELSE SegScan(table, addr, i + 1, result)
  ELSE IF result = NULL THEN Returned(addr) ELSE Returned(result)

segmented_to_virtual(table, addr) == SegScan(table, addr, 0, NULL)

EmptyDescriptor == [srcStart |-> 0, srcEnd |-> 0, dstStart |-> 0]

\* descriptors drawn for the table: [srcStart, srcEnd) within 1..MaxSegAddr,
\* a destination that is null, low or far away
DescriptorSet ==
  { [srcStart |-> lo, srcEnd |-> hi, dstStart |-> b] :
      lo \in 1..(MaxSegAddr - 1), hi \in 1..MaxSegAddr, b \in {0, 1, 8} }

\* the table slots (1-based) that hold the two drawn descriptors
SlotPairs == { <<1, 2>>, <<1, SegTableLen>>, <<16, 17>> }

SegTableOf(p, d1, d2) ==
  [i \in 1..SegTableLen |->
     IF i = p[1] THEN d1 ELSE IF i = p[2] THEN d2 ELSE EmptyDescriptor]

SegIdle == segTable = <<>> /\ segAddr = 0 /\ segOut = Pending

SegInit ==
  /\ \E p \in SlotPairs, d1 \in DescriptorSet, d2 \in DescriptorSet :
       segTable = SegTableOf(p, d1, d2)
  /\ segAddr \in 0..MaxSegAddr
  /\ segOut = Pending

SegTranslate ==
  /\ segOut = Pending
  /\ segOut' = segmented_to_virtual(segTable, segAddr)
  /\ UNCHANGED <<segTable, segAddr>>

(***************************************************************************)
(* GameState::from_base                                                    *)
(***************************************************************************)
\* from_base with the end of the image taken as part of it
from_base_inclusive(gs, addr) ==
  IF addr < gs.base \/ addr > gs.base + ImageSize
  THEN addr
  ELSE (addr - gs.base) + gs.data

\* lines 110-118: base + 1 is one whole image past base
from_base(gs, addr) ==
  IF addr < gs.base \/ addr >= gs.base + ImageSize
  THEN addr
  ELSE (addr - gs.base) + gs.data

RbIdle == rbState = [frame |-> 0, base |-> 0, data |-> 0] /\ rbAddr = 0 /\ rbOut = Pending

RbInit ==
  /\ rbState \in [frame : {0}, base : 0..MaxRbBase, data : {2, 100}]
  /\ rbAddr \in 0..(MaxRbBase + ImageSize + 1)
  /\ rbOut = Pending

Rebase ==
  /\ rbOut = Pending
  /\ rbOut' = Returned(from_base(rbState, rbAddr))
  /\ UNCHANGED <<rbState, rbAddr>>

(***************************************************************************)
(* interpret_display_list                                                  *)
(*                                                                         *)
(* dlStack holds the local dl of every active call: a recursive call       *)
(* pushes the callee's cursor and leaves the caller's at the calling       *)
(* command; the callee's return pops it and the caller's dl += 2 follows.  *)
(* The command stream is input: a command is drawn from CmdSet the first   *)
(* time its address is read and stays what it was (render never writes     *)
(* snapshot memory).  A position is identified by the address of the       *)
(* source vertex it was copied from; 0 is the value of a slot of the       *)
(* freshly constructed vector.                                             *)
(***************************************************************************)
\* u8 cmd = w0 >> 24
Opcode(w0) == w0[1]

\* a count taken from every bit above bit 19
VertexCountWide(w0) == ((w0[1] * 16) + (w0[2] \div 16)) + 1

\* u32 n = ((w0 >> 20) & 0xF) + 1
VertexCount(w0) == ((w0[2] \div 16) % 16) + 1

\* u32 v0 = (w0 >> 16) & 0xF
VertexBase(w0) == w0[2] % 16

\* a load that leaves the position of a freshly constructed vector in every
\* slot it does not write
LoadVerticesCleared(cache, v0, n, v) ==
  [k \in 0..(VecCapacity - 1) |->
     IF v0 <= k /\ k < v0 + n THEN v + (k - v0) * VtxSize ELSE 0]

\* the loop of lines 621-623 on the vector's storage: slot v0 + i takes the
\* position of v[i]
LoadVertices(cache, v0, n, v) ==
  [k \in 0..(VecCapacity - 1) |->
     IF v0 <= k /\ k < v0 + n THEN v + (k - v0) * VtxSize ELSE cache[k]]

\* the indices v0 + i of line 622, i in [0, n)
VertexSlots(v0, n) == {v0 + i : i \in 0..(n - 1)}

\* ((w1 >> shift) & 0xFF) / 10, the shift in bytes
TriIndex(w1, byte) == ((w1 \div (256 ^ byte)) % 256) \div 10

\* the three slots of lines 657-659, in the order of lines 662-664
TriSlots(w1) == <<TriIndex(w1, 2), TriIndex(w1, 1), TriIndex(w1, 0)>>

\* a branch taken as a call
DLModeAllCalls(w0) ==
  IF w0 = <<6, 0, 0, 0>> \/ w0 = <<6, 1, 0, 0>> THEN "call" ELSE "fatal"

\* the branches decided on bits 16-23 of w0 alone
DLModeByte(w0) ==
  IF w0[2] = 0 THEN "call"
  ELSE IF w0[2] = 1 THEN "branch"
  ELSE "fatal"

\* the branches of lines 630-637
DLMode(w0) ==
  IF w0 = <<6, 0, 0, 0>> THEN "call"
  ELSE IF w0 = <<6, 1, 0, 0>> THEN "branch"
  ELSE "fatal"

\* the branch without the step back
BranchCursorNoStepBack(new_dl) == new_dl

\* dl = new_dl - 2 (line 633), in bytes
BranchCursor(new_dl) == new_dl - CmdWidth

\* the advance by one word instead of one command
AdvanceOneWord(dl) == dl + 4

\* dl += 2 (line 703), in bytes
Advance(dl) == dl + CmdWidth

\* the cases whose body is a bare break (lines 612-613, 641-645, 650-654, 670-695)
NoOpOpcodes == {3, 182, 183, 185, 187, 230, 231, 232, 242, 243, 245, 251, 252, 253}

\* the switch with the exit(1) of its default case (lines 698-699) in force
CmdKindStrict(w0) ==
  CASE Opcode(w0) = 1 -> "matrix"
    [] Opcode(w0) = 4 -> "vertex"
    [] Opcode(w0) = 6 -> "list"
    [] Opcode(w0) = 184 -> "end"
    [] Opcode(w0) = 191 -> "triangle"
    [] Opcode(w0) \in NoOpOpcodes -> "noop"
    [] OTHER -> "matrix"

\* the switch of lines 584-701 on cmd: the case taken; default is a bare break
CmdKind(w0) ==
  CASE Opcode(w0) = 1 -> "matrix"
    [] Opcode(w0) = 4 -> "vertex"
    [] Opcode(w0) = 6 -> "list"
    [] Opcode(w0) = 184 -> "end"
    [] Opcode(w0) = 191 -> "triangle"
    [] Opcode(w0) \in NoOpOpcodes -> "noop"
    [] OTHER -> "noop"

Cmd(w0, w1) == [w0 |-> w0, w1 |-> w1]

\* operands that name a command: one inside the reference image (rebased by
\* from_base) and one outside it (used as it is)
TargetSet == {RefBase + CmdWidth, DataBase + 2 * CmdWidth}

\* operand of a triangle through slots 0, 1, 2: bytes 5, 19, 20
TriOperand == (5 * 65536) + (19 * 256) + 20

\* the commands a stream is drawn from
CmdSet ==
  {Cmd(<<1, 0, 0, 0>>, 0), Cmd(<<1, 255, 255, 255>>, DataBase)}
  \cup {Cmd(<<3, 0, 0, 0>>, 0), Cmd(<<0, 0, 0, 0>>, 0)}
  \cup {Cmd(<<4, 32, 0, 0>>, RefBase), Cmd(<<4, 1, 0, 0>>, StaticVtx)}
  \cup {Cmd(<<6, 0, 0, 0>>, t) : t \in TargetSet}
  \cup {Cmd(<<6, 1, 0, 0>>, t) : t \in TargetSet}
  \cup {Cmd(<<6, 0, 0, 1>>, RefBase + CmdWidth)}
  \cup {Cmd(<<184, 0, 0, 0>>, 0)}
  \cup {Cmd(<<191, 0, 0, 0>>, TriOperand)}

\* the cursor of the innermost call
Dl == dlStack[Len(dlStack)]

SetDl(stack, dl) == [stack EXCEPT ![Len(stack)] = dl]

\* what dl[0], dl[1] can be
FetchSet == IF Dl \in DOMAIN mem THEN {mem[Dl]} ELSE CmdSet

Fetch(cmd) == mem' = IF Dl \in DOMAIN mem THEN mem ELSE (Dl :> cmd) @@ mem

Running == status = "running" /\ steps < stepLimit

ShortRuns == stepLimit = MaxSteps

FreshCache == [k \in 0..(VecCapacity - 1) |-> 0]

\* a vector constructed anew at every call of interpret_display_list
EntryCacheFresh(cache) == FreshCache

\* the vector a call of interpret_display_list starts with: the global of
\* line 561, as the last command executed left it
EntryCache(cache) == cache

DlIdle ==
  /\ st = [frame |-> 0, base |-> 0, data |-> 0]
  /\ mem = <<>>
  /\ dlStack = <<>>
  /\ status = "idle"
  /\ loaded_vertices = FreshCache
  /\ vecSize = VecCapacity
  /\ hardened = FALSE
  /\ draws = <<>>
  /\ steps = 0

\* the top-level call interpret_display_list(st, display_list) of line 525 in
\* a process that has loaded no vertex yet
DlInit ==
  /\ st = [frame |-> 0, base |-> RefBase, data |-> DataBase]
  /\ mem = <<>>
  /\ dlStack = <<DataBase>>
  /\ status = "running"
  /\ loaded_vertices = FreshCache
  /\ vecSize = VecCapacity
  /\ hardened \in BOOLEAN
  /\ draws = <<>>
  /\ steps = 0

\* case 0x01: exit(1)
ExecMatrix ==
  /\ Running
  /\ \E cmd \in FetchSet :
       /\ CmdKind(cmd.w0) = "matrix"
       /\ Fetch(cmd)
  /\ status' = "aborted"
  /\ steps' = steps + 1
  /\ UNCHANGED <<st, dlStack, loaded_vertices, vecSize, hardened, draws>>

\* the no-op cases and default
ExecNoOp ==
  /\ Running
  /\ \E cmd \in FetchSet :
       /\ CmdKind(cmd.w0) = "noop"
       /\ Fetch(cmd)
  /\ dlStack' = SetDl(dlStack, Advance(Dl))
  /\ steps' = steps + 1
  /\ UNCHANGED <<st, status, loaded_vertices, vecSize, hardened, draws>>

\* case 0x04: clear() leaves size 0, so every index of the loop is out of
\* range: a checking build aborts at the first, any other writes the storage
ExecVertex ==
  /\ Running
  /\ \E cmd \in FetchSet :
       /\ CmdKind(cmd.w0) = "vertex"
       /\ Fetch(cmd)
       /\ vecSize' = 0
       /\ IF hardened
          THEN /\ status' = "aborted"
               /\ UNCHANGED <<dlStack, loaded_vertices>>
          ELSE /\ loaded_vertices' =
                    LoadVertices(loaded_vertices, VertexBase(cmd.w0),
                                 VertexCount(cmd.w0), from_base(st, cmd.w1))
               /\ dlStack' = SetDl(dlStack, Advance(Dl))
               /\ UNCHANGED status
  /\ steps' = steps + 1
  /\ UNCHANGED <<st, hardened, draws>>

\* case 0x06 with w0 == 0x06000000: the recursive call
ExecCall ==
  /\ Running
  /\ \E cmd \in FetchSet :
       /\ CmdKind(cmd.w0) = "list"
       /\ DLMode(cmd.w0) = "call"
       /\ Fetch(cmd)
       /\ dlStack' = Append(dlStack, from_base(st, cmd.w1))
  /\ loaded_vertices' = EntryCache(loaded_vertices)
  /\ steps' = steps + 1
  /\ UNCHANGED <<st, status, vecSize, hardened, draws>>

\* case 0x06 with w0 == 0x06010000: the branch, then dl += 2
ExecBranch ==
  /\ Running
  /\ \E cmd \in FetchSet :
       /\ CmdKind(cmd.w0) = "list"
       /\ DLMode(cmd.w0) = "branch"
       /\ Fetch(cmd)
       /\ dlStack' = SetDl(dlStack, Advance(BranchCursor(from_base(st, cmd.w1))))
  /\ steps' = steps + 1
  /\ UNCHANGED <<st, status, loaded_vertices, vecSize, hardened, draws>>

\* case 0x06 with any other w0: exit(1)
ExecBadList ==
  /\ Running
  /\ \E cmd \in FetchSet :
       /\ CmdKind(cmd.w0) = "list"
       /\ DLMode(cmd.w0) = "fatal"
       /\ Fetch(cmd)
  /\ status' = "aborted"
  /\ steps' = steps + 1
  /\ UNCHANGED <<st, dlStack, loaded_vertices, vecSize, hardened, draws>>

\* case 0xB8: return; in the caller, break and dl += 2 follow
ExecEnd ==
  /\ Running
  /\ \E cmd \in FetchSet :
       /\ CmdKind(cmd.w0) = "end"
       /\ Fetch(cmd)
  /\ IF Len(dlStack) = 1
     THEN /\ status' = "returned"
          /\ dlStack' = <<>>
     ELSE /\ dlStack' = SetDl(SubSeq(dlStack, 1, Len(dlStack) - 1),
                              Advance(dlStack[Len(dlStack) - 1]))
          /\ UNCHANGED status
  /\ steps' = steps + 1
  /\ UNCHANGED <<st, loaded_vertices, vecSize, hardened, draws>>

\* case 0xBF: an index at or past size() is out of range: a checking build
\* aborts, any other reads the storage
ExecTriangle ==
  /\ Running
  /\ \E cmd \in FetchSet :
       /\ CmdKind(cmd.w0) = "triangle"
       /\ Fetch(cmd)
       /\ LET t == TriSlots(cmd.w1) IN
          IF hardened /\ \E i \in 1..3 : t[i] >= vecSize
          THEN /\ status' = "aborted"
               /\ UNCHANGED <<dlStack, draws>>
          ELSE /\ draws' = Append(draws, <<loaded_vertices[t[1]], loaded_vertices[t[2]],
                                           loaded_vertices[t[3]]>>)
               /\ dlStack' = SetDl(dlStack, Advance(Dl))
               /\ UNCHANGED status
  /\ steps' = steps + 1
  /\ UNCHANGED <<st, loaded_vertices, vecSize, hardened>>


(***************************************************************************)
(* new_renderer and delete_renderer (lines 32-62)                          *)
(*                                                                         *)
(* gladLoadGL can fail or succeed at every call; operator new returns the  *)
(* address of storage no live Renderer occupies.                           *)
(***************************************************************************)
\* a test that ignores the flag
NeedsLoadAlways(flag) == TRUE

\* line 35: if (!loaded_gl)
NeedsLoad(flag) == ~flag

HandleSet == 1..MaxHandles

GlIdle ==
  /\ loaded_gl = FALSE
  /\ renderers = {}
  /\ nrResult = [kind |-> "none"]
  /\ gladCalls = 0
  /\ gladLoads = 0
  /\ calls = 0

\* lines 32-46; loads is the result of gladLoadGL when it is called
new_renderer ==
  /\ calls < MaxCalls
  /\ calls' = calls + 1
  /\ \E loads \in BOOLEAN :
       IF NeedsLoad(loaded_gl) /\ ~loads
       THEN /\ gladCalls' = gladCalls + 1
            /\ nrResult' = [kind |-> "error"]
            /\ UNCHANGED <<loaded_gl, renderers, gladLoads>>
       ELSE /\ IF NeedsLoad(loaded_gl)
               THEN /\ gladCalls' = gladCalls + 1
                    /\ gladLoads' = gladLoads + 1
                    /\ loaded_gl' = TRUE
               ELSE UNCHANGED <<gladCalls, gladLoads, loaded_gl>>
            /\ \E object \in HandleSet \ renderers :
                 /\ renderers' = renderers \cup {object}
                 /\ nrResult' = [kind |-> "handle", handle |-> object]

\* lines 49-62 on the handle of a live Renderer
delete_renderer ==
  /\ calls < MaxCalls
  /\ calls' = calls + 1
  /\ \E object \in renderers : renderers' = renderers \ {object}
  /\ UNCHANGED <<loaded_gl, nrResult, gladCalls, gladLoads>>

(***************************************************************************)
(* render: the surfaces (lines 344-367)                                    *)
(*                                                                         *)
(* A component of a normal is an integer number of 10^-9: the comparisons  *)
(* of lines 349-353 are made in double precision between the stored value  *)
(* and the literal, so they are exact comparisons of the two numbers.      *)
(***************************************************************************)
\* a classification whose comparisons admit equality
SurfaceTypeInclusive(normal) ==
  IF normal.y >= FloorY THEN "FLOOR"
  ELSE IF normal.y <= -FloorY THEN "CEILING"
  ELSE IF normal.x <= -WallX \/ normal.x >= WallX THEN "WALL_X_PROJ"
  ELSE "WALL_Z_PROJ"

\* lines 348-357
SurfaceType(normal) ==
  IF normal.y > FloorY THEN "FLOOR"
  ELSE IF normal.y < -FloorY THEN "CEILING"
  ELSE IF normal.x < -WallX \/ normal.x > WallX THEN "WALL_X_PROJ"
  ELSE "WALL_Z_PROJ"

\* the loop of lines 344-367: one scene surface for every surface of the pool
SceneSurfaces(pool) ==
  [i \in 1..Len(pool) |-> [type |-> SurfaceType(pool[i]), normal |-> pool[i]]]

\* the normals drawn: each threshold, the values next to it on either side,
\* 0 and 1
NormalSet ==
  [x : {-WallX - 1, -WallX, 0, WallX, WallX + 1},
   y : {-FloorY - 1, -FloorY, 0, FloorY, FloorY + 1, 1000000000}]

SurfacePools == UNION { [1..n -> NormalSet] : n \in 0..MaxSurfaces }

(***************************************************************************)
(* render: the cameras and the transforms (lines 341, 437-453)             *)
(*                                                                         *)
(* A Camera is [mode, rotate_camera, birds_eye_camera] (lines 198-221).    *)
(* Every number of a camera stands for itself; the numbers read from the   *)
(* snapshot are identified by where they are read.  A matrix is identified *)
(* by the camera data it was computed from.                                *)
(***************************************************************************)
\* a matrix nothing has computed yet
NoMatrix == <<"none", 0, 0, 0, 0>>

\* the member of a camera its mode selects
ActiveCamera(c) ==
  IF c.mode = "ROTATE"
  THEN <<"ROTATE", c.rotate_camera.pos, c.rotate_camera.pitch, c.rotate_camera.yaw,
         c.rotate_camera.fov_y>>
  ELSE <<"BIRDS_EYE", c.birds_eye_camera.pos, c.birds_eye_camera.span_y, 0, 0>>

\* Renderer::build_transforms: the matrices of the scene's camera
build_transforms(c) == [view_matrix |-> ActiveCamera(c), proj_matrix |-> ActiveCamera(c)]

\* lines 437-440: position, pitch and yaw read from st.data->D_8033B328, and
\* 45 degrees
GameCamera(gs) ==
  [pos |-> gs.data + 1, pitch |-> gs.data + 2, yaw |-> gs.data + 3, fov_y |-> 45]

\* lines 442-447: the assignment to the member rotate_camera; where the
\* members share storage it overwrites birds_eye_camera, the mode stays
SetRotateCamera(c, rc, shared) ==
  [c EXCEPT !.rotate_camera = rc,
            !.birds_eye_camera = IF shared THEN [pos |-> rc.pos, span_y |-> rc.pitch] ELSE @]

\* the cameras a caller passes: one of each mode
CameraSet ==
  { [mode |-> "ROTATE",
     rotate_camera |-> [pos |-> 1, pitch |-> 2, yaw |-> 3, fov_y |-> 60],
     birds_eye_camera |-> [pos |-> 0, span_y |-> 0]],
    [mode |-> "BIRDS_EYE",
     rotate_camera |-> [pos |-> 0, pitch |-> 0, yaw |-> 0, fov_y |-> 0],
     birds_eye_camera |-> [pos |-> 4, span_y |-> 5]] }

\* a Renderer no call has used
NewRenderer == [view_matrix |-> NoMatrix, proj_matrix |-> NoMatrix, renders |-> 0]

\* the stages of read_render_args, each of which can fail
DecodeStages == {"args", "renderer", "camera", "current_state", "path_states"}

\* a render that goes on whatever read_render_args returned
AfterDecodeUnchecked(failure) == "start"

\* lines 325-327: return NULL when read_render_args returned false
AfterDecode(failure) == IF failure = "none" THEN "start" ELSE "failed"

SceneIdle ==
  /\ surfacePool = <<>>
  /\ surfaces = <<>>
  /\ camera = [mode |-> "ROTATE",
               rotate_camera |-> [pos |-> 0, pitch |-> 0, yaw |-> 0, fov_y |-> 0],
               birds_eye_camera |-> [pos |-> 0, span_y |-> 0]]
  /\ renderer = NewRenderer
  /\ game_view_matrix = NoMatrix
  /\ transforms = <<>>
  /\ decodeOut = "pending"
  /\ renderCalls = 0

\* render at line 344
SurfaceInit ==
  /\ surfacePool \in SurfacePools
  /\ surfaces = <<>>
  /\ camera \in {c \in CameraSet : c.mode = "ROTATE"}
  /\ renderer = NewRenderer
  /\ game_view_matrix = NoMatrix
  /\ transforms = <<>>
  /\ decodeOut = "none"
  /\ renderCalls = 1

\* lines 344-367
BuildSurfaces ==
  /\ surfaces = <<>>
  /\ surfacePool # <<>>
  /\ surfaces' = SceneSurfaces(surfacePool)
  /\ UNCHANGED <<surfacePool, camera, renderer, game_view_matrix, transforms, decodeOut,
                 renderCalls>>

(***************************************************************************)
(* render: the object path (lines 380-409)                                 *)
(*                                                                         *)
(* A snapshot of path_states is [frame, pos, numSteps]: its frame id, the  *)
(* position of its gMarioState and the length of its gQStepsInfo.  The     *)
(* quarter step i of snapshot k (0-based) is the pair <<k, i>>.            *)
(***************************************************************************)
\* a search that keeps the last match
RECURSIVE find_last(_, _, _)
find_last(path_states, current_state, i) ==
  IF i >= Len(path_states) THEN Len(path_states)
  ELSE LET rest == find_last(path_states, current_state, i + 1) IN
       IF rest < Len(path_states) THEN rest
       ELSE IF path_states[i + 1].frame = current_state.frame THEN i
       ELSE rest

\* std::find with GameState::operator== (frames compared), from 0-based
\* position i: the position found, or the end position
RECURSIVE find(_, _, _)
find(path_states, current_state, i) ==
  IF i >= Len(path_states) THEN Len(path_states)
  ELSE IF path_states[i + 1].frame = current_state.frame THEN i
  ELSE find(path_states, current_state, i + 1)

\* std::distance(begin, find(begin, end, current_state))
current_index(path_states, current_state) == find(path_states, current_state, 0)

\* the steps of lines 393-398 read from the snapshot at 0-based position k
QuarterSteps(path_states, k) ==
  [i \in 1..path_states[k + 1].numSteps |-> <<k, i - 1>>]

\* the test passing when the node about to be appended is the current one
AtCurrentBefore(mario_path, ci) == mario_path # <<>> /\ Len(mario_path) = ci

\* the test of line 388
AtCurrent(mario_path, ci) == mario_path # <<>> /\ Len(mario_path) = ci + 1

\* the loop of lines 385-405 from the snapshot at 0-based position k
RECURSIVE PathLoop(_, _, _, _)
PathLoop(path_states, ci, k, mario_path) ==
  IF k >= Len(path_states) THEN mario_path
  ELSE LET filled ==
             IF AtCurrent(mario_path, ci)
             THEN [mario_path EXCEPT ![Len(mario_path)].quarter_steps =
                                        @ \o QuarterSteps(path_states, k)]
             ELSE mario_path
       IN PathLoop(path_states, ci, k + 1,
                   Append(filled, [pos |-> path_states[k + 1].pos, quarter_steps |-> <<>>]))

\* the ObjectPath pushed at lines 406-409
ObjectPath(path_states, current_state) ==
  LET ci == current_index(path_states, current_state) IN
  [nodes |-> PathLoop(path_states, ci, 0, <<>>), current_index |-> ci]

SnapshotSet == [frame : 0..MaxFrame, pos : {100}, numSteps : 0..MaxQSteps]

\* path_states of every length up to MaxHistory; the position of a snapshot
\* is told apart by its place
Histories ==
  UNION { [1..n -> SnapshotSet] : n \in 0..MaxHistory }

RenderIdle ==
  /\ info = [current_state |-> [frame |-> 0], path_states |-> <<>>]
  /\ gMarioObject = NULL
  /\ unk14 = <<>>
  /\ scene = <<>>
  /\ renderPc = "idle"
  /\ listIdx = 0
  /\ nodeIdx = 0

PathInit ==
  /\ info \in [current_state : [frame : 0..MaxFrame], path_states : Histories]
  /\ gMarioObject = NULL
  /\ unk14 = <<>>
  /\ scene = <<>>
  /\ renderPc = "start"
  /\ listIdx = 0
  /\ nodeIdx = 0

\* lines 380-409 alone
BuildPath ==
  /\ renderPc = "start"
  /\ scene' = Append(scene, ObjectPath(info.path_states, info.current_state))
  /\ renderPc' = "built"
  /\ UNCHANGED <<info, gMarioObject, unk14, listIdx, nodeIdx>>


(***************************************************************************)
(* render: the overlay loop (lines 477-534)                                *)
(*                                                                         *)
(* A node is [object, unk4]: the object it belongs to and its display      *)
(* list, both addresses of the reference image; a chain lists its nodes in *)
(* the order of their unk8 links.                                          *)
(***************************************************************************)
NodeSet == [object : {ObjA, ObjB}, unk4 : {RefBase}]

Chains == UNION { [1..n -> NodeSet] : n \in 0..MaxNodes }

\* the test of line 483
IsMarioNode(gs, node, mario) ==
  from_base(gs, mario) # NULL /\ from_base(gs, node.object) = from_base(gs, mario)

\* display_list of line 486
DisplayListOf(gs, node) == from_base(gs, node.unk4)

\* the command stream that holds the commands of s from DataBase on
StreamOf(s) ==
  [a \in {DataBase + (k - 1) * CmdWidth : k \in 1..Len(s)} |->
     s[((a - DataBase) \div CmdWidth) + 1]]

\* the streams render is run on
RenderStreams ==
  { StreamOf(<<Cmd(<<4, 32, 0, 0>>, RefBase), Cmd(<<191, 0, 0, 0>>, TriOperand),
               Cmd(<<184, 0, 0, 0>>, 0)>>),
    StreamOf(<<Cmd(<<191, 0, 0, 0>>, TriOperand), Cmd(<<184, 0, 0, 0>>, 0)>>),
    StreamOf(<<Cmd(<<191, 0, 0, 0>>, TriOperand), Cmd(<<4, 32, 0, 0>>, RefBase),
               Cmd(<<184, 0, 0, 0>>, 0)>>),
    StreamOf(<<Cmd(<<6, 0, 0, 0>>, RefBase + CmdWidth), Cmd(<<184, 0, 0, 0>>, 0)>>),
    StreamOf(<<Cmd(<<6, 1, 0, 0>>, DataBase + 2 * CmdWidth), Cmd(<<3, 0, 0, 0>>, 0),
               Cmd(<<184, 0, 0, 0>>, 0)>>),
    StreamOf(<<Cmd(<<0, 0, 0, 0>>, 0), Cmd(<<1, 255, 255, 255>>, DataBase)>>),
    StreamOf(<<Cmd(<<6, 0, 0, 1>>, RefBase + CmdWidth)>>) }

\* a segment table with one descriptor over the reference image, and one with
\* two descriptors over it
OneSegment == [srcStart |-> RefBase, srcEnd |-> RefBase + ImageSize, dstStart |-> DataBase]

RenderTables ==
  { SegTableOf(<<1, 2>>, OneSegment, EmptyDescriptor),
    SegTableOf(<<1, 2>>, OneSegment, OneSegment) }

\* the path_states render is run on: the current snapshot and a later one
RenderHistories ==
  { <<[frame |-> 0, pos |-> 100, numSteps |-> 0],
      [frame |-> 1, pos |-> 100, numSteps |-> MaxQSteps]>> }

\* the first call of render (line 320), in a process that has loaded no
\* vertex yet and on a Renderer no call has used
RenderInit ==
  /\ segAddr = 0
  /\ segOut = Pending
  /\ segTable \in RenderTables
  /\ st = [frame |-> 0, base |-> RefBase, data |-> DataBase]
  /\ mem \in RenderStreams
  /\ dlStack = <<>>
  /\ status = "idle"
  /\ loaded_vertices = FreshCache
  /\ vecSize = VecCapacity
  /\ hardened \in BOOLEAN
  /\ draws = <<>>
  /\ steps = 0
  /\ info \in [current_state : {[frame |-> 0]}, path_states : RenderHistories]
  /\ gMarioObject \in {NULL, ObjA}
  /\ \E li \in {1, NumLists}, chain \in Chains :
       unk14 = [i \in 1..NumLists |-> IF i = li THEN chain ELSE <<>>]
  /\ scene = <<>>
  /\ renderPc = "call"
  /\ listIdx = 0
  /\ nodeIdx = 0
  /\ surfacePool = <<[x |-> WallX + 1, y |-> FloorY + 1]>>
  /\ surfaces = <<>>
  /\ camera \in CameraSet
  /\ renderer = NewRenderer
  /\ game_view_matrix = NoMatrix
  /\ transforms = <<>>
  /\ decodeOut = "pending"
  /\ renderCalls = 1

\* lines 325-327 with read_render_args (lines 290-314): any stage can fail
ReadRenderArgs ==
  /\ renderPc = "call"
  /\ \E failure \in DecodeStages \cup {"none"} :
       /\ decodeOut' = failure
       /\ renderPc' = AfterDecode(failure)
  /\ UNCHANGED <<info, gMarioObject, unk14, scene, listIdx, nodeIdx>>
  /\ UNCHANGED <<surfacePool, surfaces, camera, renderer, game_view_matrix, transforms,
                 renderCalls>>

\* lines 329-476: the scene with its surfaces and its object path, the
\* renderer's drawing and the two transforms; the overlay loop starts at
\* list 0.  Whether the members of a Camera share storage is the build's.
RenderScene ==
  /\ renderPc = "start"
  /\ surfaces' = SceneSurfaces(surfacePool)
  /\ scene' = Append(scene, ObjectPath(info.path_states, info.current_state))
  /\ \E shared \in (IF camera.mode = "ROTATE" THEN {FALSE} ELSE BOOLEAN) :
       LET game == SetRotateCamera(camera, GameCamera(st), shared) IN
         /\ transforms' = <<game, camera>>
         /\ game_view_matrix' = build_transforms(game).view_matrix
  /\ renderer' = [view_matrix |-> build_transforms(camera).view_matrix,
                  proj_matrix |-> build_transforms(camera).proj_matrix,
                  renders |-> renderer.renders + 1]
  /\ renderPc' = "overlay"
  /\ listIdx' = 0
  /\ nodeIdx' = 0
  /\ UNCHANGED <<info, gMarioObject, unk14, surfacePool, camera, decodeOut, renderCalls>>

Overlaying == renderPc = "overlay" /\ status = "idle" /\ listIdx < NumLists

\* line 479 with node == nullptr: the next i
OverlayNextList ==
  /\ Overlaying
  /\ nodeIdx >= Len(unk14[listIdx + 1])
  /\ listIdx' = listIdx + 1
  /\ nodeIdx' = 0
  /\ UNCHANGED <<info, gMarioObject, unk14, scene, renderPc, dlVars>>

\* lines 480-483 and 532 on a node of another object
OverlayOtherNode ==
  /\ Overlaying
  /\ nodeIdx < Len(unk14[listIdx + 1])
  /\ ~IsMarioNode(st, unk14[listIdx + 1][nodeIdx + 1], gMarioObject)
  /\ nodeIdx' = nodeIdx + 1
  /\ UNCHANGED <<info, gMarioObject, unk14, scene, renderPc, listIdx, dlVars>>

\* lines 480-525 on a node of the mario object: the top-level call
OverlayInterpret ==
  /\ Overlaying
  /\ nodeIdx < Len(unk14[listIdx + 1])
  /\ IsMarioNode(st, unk14[listIdx + 1][nodeIdx + 1], gMarioObject)
  /\ dlStack' = <<DisplayListOf(st, unk14[listIdx + 1][nodeIdx + 1])>>
  /\ status' = "running"
  /\ loaded_vertices' = EntryCache(loaded_vertices)
  /\ steps' = 0
  /\ UNCHANGED <<st, mem, vecSize, hardened, draws, renderVars>>

\* lines 527-532 after the top-level call has returned
OverlayResume ==
  /\ renderPc = "overlay"
  /\ status = "returned"
  /\ status' = "idle"
  /\ nodeIdx' = nodeIdx + 1
  /\ UNCHANGED <<st, mem, dlStack, loaded_vertices, vecSize, hardened, draws, steps>>
  /\ UNCHANGED <<info, gMarioObject, unk14, scene, renderPc, listIdx>>

\* line 557
RenderReturn ==
  /\ renderPc = "overlay"
  /\ status = "idle"
  /\ listIdx = NumLists
  /\ renderPc' = "returned"
  /\ UNCHANGED <<info, gMarioObject, unk14, scene, listIdx, nodeIdx, dlVars>>

(***************************************************************************)
(* The slot indices of a vertex load and of a triangle (lines 615-626 and  *)
(* 656-668), over every value of the bits they are computed from           *)
(***************************************************************************)
\* the operand words of a triangle: one byte takes every value, the other
\* two the least and the greatest
IdxOperands ==
  UNION { { (b * 65536) + (e[1] * 256) + e[2],
            (e[1] * 65536) + (b * 256) + e[2],
            (e[1] * 65536) + (e[2] * 256) + b } :
          b \in 0..255, e \in {0, 255} \X {0, 255} }

\* a vertex load with every value of bits 16-23, a triangle with the operand
\* words above
IdxCommands ==
  {Cmd(<<4, b, 0, 0>>, StaticVtx) : b \in 0..255}
  \cup {Cmd(<<191, 0, 0, 0>>, w1) : w1 \in IdxOperands}

\* the top-level call on a list of one such command and the end of the list
IdxInit ==
  /\ st = [frame |-> 0, base |-> RefBase, data |-> DataBase]
  /\ mem \in {StreamOf(<<c, Cmd(<<184, 0, 0, 0>>, 0)>>) : c \in IdxCommands}
  /\ dlStack = <<DataBase>>
  /\ status = "running"
  /\ loaded_vertices = FreshCache
  /\ vecSize = VecCapacity
  /\ hardened \in BOOLEAN
  /\ draws = <<>>
  /\ steps = 0

\* a later call of render with the same arguments, after one that returned
\* or reported a failure: its locals are new, the vector, the Renderer and
\* the draws issued stay
RenderAgain ==
  /\ renderPc \in {"returned", "failed"}
  /\ renderCalls < MaxRenders
  /\ renderCalls' = renderCalls + 1
  /\ renderPc' = "call"
  /\ decodeOut' = "pending"
  /\ scene' = <<>>
  /\ surfaces' = <<>>
  /\ game_view_matrix' = NoMatrix
  /\ transforms' = <<>>
  /\ listIdx' = 0
  /\ nodeIdx' = 0
  /\ UNCHANGED <<info, gMarioObject, unk14, surfacePool, camera, renderer>>

(***************************************************************************)
(* The interpreter on streams given in full: three commands at DataBase,   *)
(* every call and branch target one of the three                           *)
(***************************************************************************)
\* the address of command k (0-based) of the stream
Slot(k) == DataBase + k * CmdWidth

\* operands that name the three commands: the first two inside the
\* reference image, the third outside it
SlotTargets == {RefBase, RefBase + CmdWidth, Slot(2)}

\* commands after which the next command of the list is executed
FallCommands ==
  {Cmd(<<3, 0, 0, 0>>, 0), Cmd(<<4, 32, 0, 0>>, RefBase), Cmd(<<191, 0, 0, 0>>, TriOperand)}

CallCommands == {Cmd(<<6, 0, 0, 0>>, t) : t \in SlotTargets}

BranchCommands == {Cmd(<<6, 1, 0, 0>>, t) : t \in SlotTargets}

\* the end of a list and the two fatal commands
HaltCommands ==
  {Cmd(<<184, 0, 0, 0>>, 0), Cmd(<<1, 0, 0, 0>>, 0), Cmd(<<6, 0, 0, 1>>, RefBase)}

\* every stream of three commands whose last one does not run into the
\* memory after the stream
FullStreams ==
  { StreamOf(<<c0, c1, c2>>) :
      c0 \in FallCommands \cup CallCommands \cup BranchCommands \cup HaltCommands,
      c1 \in FallCommands \cup CallCommands \cup BranchCommands \cup HaltCommands,
      c2 \in BranchCommands \cup HaltCommands }

\* the top-level call on such a stream
StreamInit ==
  /\ st = [frame |-> 0, base |-> RefBase, data |-> DataBase]
  /\ mem \in FullStreams
  /\ dlStack = <<DataBase>>
  /\ status = "running"
  /\ loaded_vertices = FreshCache
  /\ vecSize = VecCapacity
  /\ hardened \in BOOLEAN
  /\ draws = <<>>
  /\ steps = 0

(***************************************************************************)
(* Specifications                                                          *)
(***************************************************************************)
InitSeg == SegInit /\ RbIdle /\ DlIdle /\ RenderIdle /\ SceneIdle /\ GlIdle /\ ShortRuns

NextSeg == SegTranslate /\ UNCHANGED <<rbVars, dlVars, renderVars, sceneVars, glVars, stepLimit>>

SpecSeg == InitSeg /\ [][NextSeg]_vars

InitRebase == SegIdle /\ RbInit /\ DlIdle /\ RenderIdle /\ SceneIdle /\ GlIdle /\ ShortRuns

NextRebase == Rebase /\ UNCHANGED <<segVars, dlVars, renderVars, sceneVars, glVars, stepLimit>>

SpecRebase == InitRebase /\ [][NextRebase]_vars

DlNext ==
  \/ ExecMatrix /\ UNCHANGED <<segVars, rbVars, renderVars, sceneVars, glVars, stepLimit>>
  \/ ExecNoOp /\ UNCHANGED <<segVars, rbVars, renderVars, sceneVars, glVars, stepLimit>>
  \/ ExecVertex /\ UNCHANGED <<segVars, rbVars, renderVars, sceneVars, glVars, stepLimit>>
  \/ ExecCall /\ UNCHANGED <<segVars, rbVars, renderVars, sceneVars, glVars, stepLimit>>
  \/ ExecBranch /\ UNCHANGED <<segVars, rbVars, renderVars, sceneVars, glVars, stepLimit>>
  \/ ExecBadList /\ UNCHANGED <<segVars, rbVars, renderVars, sceneVars, glVars, stepLimit>>
  \/ ExecEnd /\ UNCHANGED <<segVars, rbVars, renderVars, sceneVars, glVars, stepLimit>>
  \/ ExecTriangle /\ UNCHANGED <<segVars, rbVars, renderVars, sceneVars, glVars, stepLimit>>

InitDL == SegIdle /\ RbIdle /\ DlInit /\ RenderIdle /\ SceneIdle /\ GlIdle /\ ShortRuns

SpecDL == InitDL /\ [][DlNext]_vars
InitPath == SegIdle /\ RbIdle /\ DlIdle /\ PathInit /\ SceneIdle /\ GlIdle /\ ShortRuns

NextPath == BuildPath /\ UNCHANGED <<segVars, rbVars, dlVars, sceneVars, glVars, stepLimit>>

SpecPath == InitPath /\ [][NextPath]_vars

InitRender == RbIdle /\ RenderInit /\ GlIdle /\ ShortRuns

NextRender ==
  \/ ReadRenderArgs /\ UNCHANGED <<segVars, rbVars, dlVars, glVars, stepLimit>>
  \/ RenderScene /\ UNCHANGED <<segVars, rbVars, dlVars, glVars, stepLimit>>
  \/ RenderAgain /\ UNCHANGED <<segVars, rbVars, dlVars, glVars, stepLimit>>
  \/ OverlayNextList /\ UNCHANGED <<segVars, rbVars, sceneVars, glVars, stepLimit>>
  \/ OverlayOtherNode /\ UNCHANGED <<segVars, rbVars, sceneVars, glVars, stepLimit>>
  \/ OverlayInterpret /\ UNCHANGED <<segVars, rbVars, sceneVars, glVars, stepLimit>>
  \/ OverlayResume /\ UNCHANGED <<segVars, rbVars, sceneVars, glVars, stepLimit>>
  \/ RenderReturn /\ UNCHANGED <<segVars, rbVars, sceneVars, glVars, stepLimit>>
  \/ DlNext

SpecRender == InitRender /\ [][NextRender]_vars

InitGl == SegIdle /\ RbIdle /\ DlIdle /\ RenderIdle /\ SceneIdle /\ GlIdle /\ ShortRuns

NextGl ==
  \/ new_renderer /\ UNCHANGED <<segVars, rbVars, dlVars, renderVars, sceneVars, stepLimit>>
  \/ delete_renderer /\ UNCHANGED <<segVars, rbVars, dlVars, renderVars, sceneVars, stepLimit>>

SpecGl == InitGl /\ [][NextGl]_vars

InitSurf == SegIdle /\ RbIdle /\ DlIdle /\ RenderIdle /\ SurfaceInit /\ GlIdle /\ ShortRuns

NextSurf == BuildSurfaces /\ UNCHANGED <<segVars, rbVars, dlVars, renderVars, glVars, stepLimit>>

SpecSurf == InitSurf /\ [][NextSurf]_vars

InitStream ==
  SegIdle /\ RbIdle /\ StreamInit /\ RenderIdle /\ SceneIdle /\ GlIdle /\ stepLimit = LongRun

SpecStream == InitStream /\ [][DlNext]_vars

\* the program is one thread that executes its next command
FairStream == SpecStream /\ WF_vars(DlNext)

InitIdx == SegIdle /\ RbIdle /\ IdxInit /\ RenderIdle /\ SceneIdle /\ GlIdle /\ ShortRuns

NextIdx ==
  \/ ExecVertex /\ UNCHANGED <<segVars, rbVars, renderVars, sceneVars, glVars, stepLimit>>
  \/ ExecTriangle /\ UNCHANGED <<segVars, rbVars, renderVars, sceneVars, glVars, stepLimit>>
  \/ ExecEnd /\ UNCHANGED <<segVars, rbVars, renderVars, sceneVars, glVars, stepLimit>>

SpecIdx == InitIdx /\ [][NextIdx]_vars

(***************************************************************************)
(* Properties                                                              *)
(***************************************************************************)
\* the commands of a stream
CallWord == <<6, 0, 0, 0>>
BranchWord == <<6, 1, 0, 0>>

\* the address in the data image of an operand, when the operand lies in the
\* reference image
Rebased(w1) == IF st.base <= w1 /\ w1 < st.base + ImageSize THEN st.data + (w1 - st.base) ELSE w1

\* in a step of the interpreter, the command it executes
Executed == mem'[Dl]

InterpreterStep == status = "running" /\ steps' = steps + 1

\* C1: a sub-list call (0x06000000) at cursor c starts a nested
\* interpretation at the rebased target and leaves the caller at c; no step of
\* a nested interpretation changes a caller's cursor; the end-of-list of the
\* nested interpretation closes it and the caller's next command is the one
\* at c plus one command.
C1_SubListCallResumesAfterCall ==
  [][InterpreterStep =>
       LET n == Len(dlStack) IN
       /\ Executed.w0 = CallWord =>
            dlStack' = Append(dlStack, Rebased(Executed.w1))
       /\ Len(dlStack') >= n => \A i \in 1..(n - 1) : dlStack'[i] = dlStack[i]
       /\ (Len(dlStack') < n /\ n > 1) =>
            /\ Opcode(Executed.w0) = 184
            /\ mem[dlStack[n - 1]].w0 = CallWord
            /\ dlStack' = [i \in 1..(n - 1) |->
                             IF i = n - 1 THEN dlStack[i] + CmdWidth ELSE dlStack[i]]
            /\ status' = "running"]_vars

\* a call at the entry whose target list ended at once: the caller is at the
\* command after the call
C1_Witness ==
  /\ status = "running"
  /\ steps = 2
  /\ DataBase \in DOMAIN mem
  /\ mem[DataBase].w0 = CallWord
  /\ dlStack = <<DataBase + CmdWidth>>

\* C2: a tail branch (0x06010000) at cursor c sets the cursor to the rebased
\* target itself, opens no nested interpretation and leaves every caller's
\* cursor alone, so nothing returns to the command after c.
C2_TailBranchJumpsToTarget ==
  [][(InterpreterStep /\ Executed.w0 = BranchWord) =>
       /\ dlStack' = [dlStack EXCEPT ![Len(dlStack)] = Rebased(Executed.w1)]
       /\ status' = "running"
       /\ draws' = draws]_vars

\* a branch at the entry was taken: the cursor is its target
C2_Witness ==
  /\ status = "running"
  /\ steps = 1
  /\ DataBase \in DOMAIN mem
  /\ mem[DataBase].w0 = BranchWord
  /\ dlStack = <<Rebased(mem[DataBase].w1)>>
  /\ dlStack # <<DataBase + CmdWidth>>

\* the number of descriptors whose source range contains addr
MatchCount(table, addr) ==
  Cardinality({i \in 1..SegTableLen : table[i].srcStart <= addr /\ addr < table[i].srcEnd})

\* C3: segmented_to_virtual aborts whenever two or more descriptors contain
\* the address.
C3_TwoMatchesAbort ==
  (segOut # Pending /\ MatchCount(segTable, segAddr) >= 2) => segOut = Aborted

\* C4: segmented_to_virtual returns the address unchanged with no matching
\* descriptor and v - lo + base with exactly one, whatever base is.
C4_ZeroOrOneMatch ==
  segOut # Pending =>
    /\ MatchCount(segTable, segAddr) = 0 => segOut = Returned(segAddr)
    /\ MatchCount(segTable, segAddr) = 1 =>
         \E i \in 1..SegTableLen :
           /\ segTable[i].srcStart <= segAddr /\ segAddr < segTable[i].srcEnd
           /\ segOut = Returned((segAddr - segTable[i].srcStart) + segTable[i].dstStart)

\* C5: from_base returns v - ref + tgt when ref <= v < ref + size, and v
\* otherwise; v = ref is rebased and v = ref + size is not.
C5_RebaseInsideImageOnly ==
  rbOut # Pending =>
    /\ rbOut.state = "returned"
    /\ (rbState.base <= rbAddr /\ rbAddr < rbState.base + ImageSize) =>
         rbOut.value - rbState.data = rbAddr - rbState.base
    /\ (rbAddr < rbState.base \/ rbAddr >= rbState.base + ImageSize) =>
         rbOut.value = rbAddr

\* the pointer one image past the reference base came back unchanged
C5_Witness ==
  /\ rbOut # Pending
  /\ rbAddr = rbState.base + ImageSize
  /\ rbOut.value = rbAddr
  /\ rbOut.value # (rbAddr - rbState.base) + rbState.data

\* a stream read so far that agrees with [vertex load of n at v0][triangle
\* with its three slots in [v0, v0 + n)][end-of-list] at the entry
LoadTriangleEnd ==
  /\ DataBase \in DOMAIN mem
  /\ Opcode(mem[DataBase].w0) = 4
  /\ (DataBase + CmdWidth) \in DOMAIN mem =>
       /\ Opcode(mem[DataBase + CmdWidth].w0) = 191
       /\ \A b \in 0..2 :
            LET slot == ((mem[DataBase + CmdWidth].w1 \div (256 ^ b)) % 256) \div 10
                w0 == mem[DataBase].w0
            IN  /\ slot >= w0[2] % 16
                /\ slot < (w0[2] % 16) + (w0[2] \div 16) + 1
  /\ (DataBase + 2 * CmdWidth) \in DOMAIN mem =>
       Opcode(mem[DataBase + 2 * CmdWidth].w0) = 184

\* the position of the source vertex a load at the entry copies into a slot
LoadedInto(slot) ==
  Rebased(mem[DataBase].w1) + (slot - (mem[DataBase].w0[2] % 16)) * VtxSize

\* C6: a stream [vertex load][triangle inside the loaded slots][end-of-list]
\* ends with exactly one line loop through the three loaded positions, in
\* operand order, after three commands.
C6_OneLineLoopThenHalt ==
  (LoadTriangleEnd /\ status \in {"returned", "aborted"}) =>
    /\ status = "returned"
    /\ steps = 3
    /\ LET w1 == mem[DataBase + CmdWidth].w1 IN
       draws = << <<LoadedInto(((w1 \div 65536) % 256) \div 10),
                    LoadedInto(((w1 \div 256) % 256) \div 10),
                    LoadedInto((w1 % 256) \div 10)>> >>

\* an opcode word that the interpreter does not support
FatalWord(w0) == w0[1] = 1 \/ (w0[1] = 6 /\ w0 # CallWord /\ w0 # BranchWord)

\* C7: executing a command with opcode byte 0x01, or with opcode byte 0x06
\* and an opcode word other than 0x06000000 and 0x06010000, aborts: the step
\* issues no draw and no step follows an abort.
C7_FatalCommandsAbort ==
  [][/\ status # "aborted"
     /\ (InterpreterStep /\ FatalWord(Executed.w0)) =>
          (status' = "aborted" /\ draws' = draws)]_vars

\* an unsupported 0x06 word aborted a nested interpretation
C7_Witness ==
  /\ status = "aborted"
  /\ Len(dlStack) = 2
  /\ mem[Dl].w0 = <<6, 0, 0, 1>>

\* C8 as claimed: render does not return when two descriptors of the segment
\* table contain an address the call resolves.
C8_AmbiguousTableAborts ==
  renderPc = "returned" =>
    \A l \in 1..NumLists : \A k \in 1..Len(unk14[l]) :
      IsMarioNode(st, unk14[l][k], gMarioObject) =>
        MatchCount(segTable, unk14[l][k].unk4) < 2

\* C8 as amended: the process aborts only inside the interpreter, at a
\* command with an unsupported opcode word or at an out-of-range index of the
\* vertex vector in a build that checks indices; the segment table plays no
\* part.
C8_AbortsOnlyInInterpreter ==
  status = "aborted" =>
    /\ renderPc = "overlay"
    /\ dlStack # <<>>
    /\ Dl \in DOMAIN mem
    /\ \/ FatalWord(mem[Dl].w0)
       \/ hardened /\ Opcode(mem[Dl].w0) \in {4, 191}

\* render returned after interpreting a display list whose address two
\* descriptors contain
C8_Witness ==
  /\ renderPc = "returned"
  /\ steps > 0
  /\ \E l \in 1..NumLists : \E k \in 1..Len(unk14[l]) :
       /\ IsMarioNode(st, unk14[l][k], gMarioObject)
       /\ MatchCount(segTable, unk14[l][k].unk4) >= 2

\* the object path render has built
BuiltPath == scene[1]

\* C9 as claimed: quarter_steps is non-empty only for the node at
\* current_index - 1.
C9_QuarterStepsBeforeCurrent ==
  renderPc = "built" =>
    \A k \in 1..Len(BuiltPath.nodes) :
      BuiltPath.nodes[k].quarter_steps # <<>> => k - 1 = BuiltPath.current_index - 1

\* C9 as amended: quarter_steps is non-empty only for the node at
\* current_index, and that node holds the fine-step log of the snapshot at
\* current_index + 1, or nothing when path_states ends at current_index.
C9_QuarterStepsAtCurrent ==
  renderPc = "built" =>
    /\ Len(BuiltPath.nodes) = Len(info.path_states)
    /\ \A k \in 1..Len(BuiltPath.nodes) :
         BuiltPath.nodes[k].quarter_steps =
           IF k - 1 = BuiltPath.current_index /\ k < Len(info.path_states)
           THEN [i \in 1..info.path_states[k + 1].numSteps |-> <<k, i - 1>>]
           ELSE <<>>

\* the current node is not the first, it holds quarter steps and the node
\* before it holds none
C9_Witness ==
  /\ renderPc = "built"
  /\ BuiltPath.current_index >= 1
  /\ BuiltPath.current_index < Len(BuiltPath.nodes)
  /\ BuiltPath.nodes[BuiltPath.current_index + 1].quarter_steps # <<>>
  /\ BuiltPath.nodes[BuiltPath.current_index].quarter_steps = <<>>

\* the 0-based positions of path_states whose frame id is the current one
MatchingPositions ==
  {k \in 0..(Len(info.path_states) - 1) :
     info.path_states[k + 1].frame = info.current_state.frame}

\* C10: current_index is the position in path_states of the snapshot with
\* the current frame id (the first one, should several have it), and
\* len(path_states) when none has it.
C10_CurrentIndexIsMatchPosition ==
  renderPc = "built" =>
    IF MatchingPositions = {}
    THEN BuiltPath.current_index = Len(info.path_states)
    ELSE /\ BuiltPath.current_index \in MatchingPositions
         /\ \A k \in MatchingPositions : BuiltPath.current_index <= k

\* three snapshots of distinct frames, the current one in the middle
C10_Witness ==
  /\ renderPc = "built"
  /\ Len(info.path_states) = 3
  /\ Cardinality({info.path_states[k].frame : k \in 1..3}) = 3
  /\ info.path_states[2].frame = info.current_state.frame
  /\ BuiltPath.current_index = 1

\* the first command of the list, once it has been executed
FirstExecuted == mem[DataBase]

\* C11: every slot index a vertex load writes (v0 + i for i in [0, n)) and
\* every slot index a triangle reads (an operand byte divided by 10) lies in
\* [0, 32), whatever the opcode word and the operand word are.
C11_SlotIndicesInRange ==
  steps >= 1 =>
    /\ CmdKind(FirstExecuted.w0) = "vertex" =>
          VertexSlots(VertexBase(FirstExecuted.w0), VertexCount(FirstExecuted.w0))
            \subseteq 0..(VecCapacity - 1)
    /\ CmdKind(FirstExecuted.w0) = "triangle" =>
          \A i \in 1..3 : TriSlots(FirstExecuted.w1)[i] \in 0..(VecCapacity - 1)

\* the largest load (base 15, count 16) has written slot 30
C11_Witness ==
  /\ steps >= 1
  /\ ~hardened
  /\ CmdKind(FirstExecuted.w0) = "vertex"
  /\ VertexBase(FirstExecuted.w0) = 15
  /\ VertexCount(FirstExecuted.w0) = 16
  /\ loaded_vertices[30] = StaticVtx + 15 * VtxSize

\* C12: every surface of the pool gets exactly one kind, decided in this
\* order with strict inequalities: FLOOR if normal.y > 0.01, else CEILING if
\* normal.y < -0.01, else WALL_X_PROJ if |normal.x| > 0.707, else
\* WALL_Z_PROJ; y = 0.01 is not FLOOR, and |x| > 0.707 with y > 0.01 is FLOOR.
C12_SurfaceKindByNormal ==
  surfaces # <<>> =>
    /\ Len(surfaces) = Len(surfacePool)
    /\ \A i \in 1..Len(surfacePool) :
         LET normal == surfacePool[i]
             absx == IF normal.x < 0 THEN -normal.x ELSE normal.x
             type == surfaces[i].type
         IN /\ surfaces[i].normal = normal
            /\ type \in {"FLOOR", "CEILING", "WALL_X_PROJ", "WALL_Z_PROJ"}
            /\ type = "FLOOR" <=> normal.y > FloorY
            /\ type = "CEILING" <=> normal.y < -FloorY
            /\ type = "WALL_X_PROJ" <=>
                  (-FloorY <= normal.y /\ normal.y <= FloorY /\ absx > WallX)
            /\ type = "WALL_Z_PROJ" <=>
                  (-FloorY <= normal.y /\ normal.y <= FloorY /\ absx <= WallX)

\* a pool of a normal with y at the threshold and of a steep normal with
\* y above it: the first is a wall, the second a floor
C12_Witness ==
  /\ Len(surfaces) = 2
  /\ surfacePool[1] = [x |-> 0, y |-> FloorY]
  /\ surfaces[1].type = "WALL_Z_PROJ"
  /\ surfacePool[2] = [x |-> WallX + 1, y |-> FloorY + 1]
  /\ surfaces[2].type = "FLOOR"

\* C13: over any sequence of new_renderer calls the initialization succeeds
\* at most once: once it has succeeded no later call runs it and every later
\* call returns a new handle; a call in which it fails reports an error,
\* creates no renderer and leaves the flag unset, so the next call runs it
\* again.
C13_InitializesOnce ==
  [][ (calls' = calls + 1 /\ Cardinality(renderers') >= Cardinality(renderers)) =>
        /\ gladLoads' <= 1
        /\ gladLoads >= 1 =>
              /\ gladCalls' = gladCalls
              /\ nrResult'.kind = "handle"
              /\ nrResult'.handle \notin renderers
              /\ renderers' = renderers \cup {nrResult'.handle}
        /\ gladLoads = 0 => gladCalls' = gladCalls + 1
        /\ (gladLoads = 0 /\ gladLoads' = 0) =>
              /\ nrResult' = [kind |-> "error"]
              /\ renderers' = renderers
              /\ loaded_gl' = FALSE ]_vars

\* a failed initialization, then a successful one, then a call that did not
\* run it: two renderers are alive
C13_Witness ==
  /\ calls = 3
  /\ gladCalls = 2
  /\ gladLoads = 1
  /\ Cardinality(renderers) = 2
  /\ nrResult.kind = "handle"

\* in a step of the interpreter, the slots of the vertex load it executes
LoadedSlots == VertexSlots(VertexBase(Executed.w0), VertexCount(Executed.w0))

\* C14: a vertex load with base slot v0 and count n changes only the slots
\* [v0, v0 + n): every other slot holds after it the position it held before
\* it, and a triangle draws, for each slot it references, the position the
\* slot holds, which no command between the load and the triangle other than
\* a load writing that slot has changed.
C14_LoadChangesOnlyItsSlots ==
  [][ InterpreterStep =>
        /\ CmdKind(Executed.w0) = "vertex" =>
              \A k \in (0..(VecCapacity - 1)) \ LoadedSlots :
                loaded_vertices'[k] = loaded_vertices[k]
        /\ CmdKind(Executed.w0) # "vertex" => loaded_vertices' = loaded_vertices
        /\ draws' # draws =>
              /\ CmdKind(Executed.w0) = "triangle"
              /\ draws' = Append(draws, [i \in 1..3 |->
                                          loaded_vertices[TriSlots(Executed.w1)[i]]]) ]_vars

\* a load of slots 0-2, a load of slot 1 alone, then a triangle through
\* slots 0, 1, 2: slots 0 and 2 are drawn with the positions of the first load
C14_Witness ==
  /\ steps = 3
  /\ mem[DataBase] = Cmd(<<4, 32, 0, 0>>, RefBase)
  /\ mem[DataBase + CmdWidth] = Cmd(<<4, 1, 0, 0>>, StaticVtx)
  /\ draws = << <<DataBase, StaticVtx, DataBase + 2 * VtxSize>> >>

\* a step that executes a vertex load
VertexLoadStep == InterpreterStep /\ CmdKind(Executed.w0) = "vertex"

\* C15: the vertex cache is one store that only a vertex load changes: a
\* sub-list call, a return, a tail branch, the start of another top-level
\* interpretation (for another node, or in a later render call) and every
\* other step of render leave every slot as it was, and a triangle draws the
\* positions the store holds, whichever list loaded them.
C15_OnlyLoadsChangeTheCache ==
  [][ /\ ~VertexLoadStep => loaded_vertices' = loaded_vertices
      /\ draws' # draws =>
            draws' = Append(draws, [i \in 1..3 |->
                                      loaded_vertices[TriSlots(Executed.w1)[i]]]) ]_vars

\* the list of two nodes starts with a triangle and then loads slots 0-2:
\* the first interpretation draws the slots of the new vector, the second
\* draws the positions the first one loaded
C15_Witness ==
  /\ Len(draws) = 2
  /\ draws[1] = <<0, 0, 0>>
  /\ draws[2] = <<DataBase, DataBase + VtxSize, DataBase + 2 * VtxSize>>
  /\ mem[DataBase] = Cmd(<<191, 0, 0, 0>>, TriOperand)
  /\ renderCalls = 1

\* the ROTATE camera of the snapshot: position, pitch and yaw read from it,
\* 45 degrees of field of view
SnapshotCamera == <<"ROTATE", GameCamera(st).pos, GameCamera(st).pitch, GameCamera(st).yaw, 45>>

\* C16: in every render call, whichever the mode of the caller's camera, the
\* first transform after the scene is drawn is computed on a ROTATE camera
\* holding the snapshot's position, pitch, yaw and 45 degrees, its view
\* matrix is the one kept for the overlay, the transform of the caller's
\* camera is computed after it, and the matrices left in the renderer are
\* those of the caller's camera.
C16_GameCameraTransformFirst ==
  renderPc \in {"overlay", "returned"} =>
    /\ Len(transforms) = 2
    /\ ActiveCamera(transforms[1]) = SnapshotCamera
    /\ game_view_matrix = SnapshotCamera
    /\ transforms[2] = camera
    /\ renderer.view_matrix = ActiveCamera(camera)
    /\ renderer.proj_matrix = ActiveCamera(camera)

\* whether the list at address a comes back to a command of seen, or to
\* itself, through commands that go on to a next command of the same list
\* and do not abort: no-ops, triangles, vertex loads where indices are not
\* checked, and tail branches
RECURSIVE LoopsBack(_, _)
LoopsBack(a, seen) ==
  IF a \in seen THEN TRUE
  ELSE IF a \notin {Slot(0), Slot(1), Slot(2)} THEN FALSE
  ELSE LET cmd == mem[a] IN
    IF CmdKind(cmd.w0) \in {"noop", "triangle"} \/ (CmdKind(cmd.w0) = "vertex" /\ ~hardened)
    THEN LoopsBack(a + CmdWidth, seen \cup {a})
    ELSE IF cmd.w0 = BranchWord
    THEN LoopsBack(Rebased(cmd.w1), seen \cup {a})
    ELSE FALSE

\* the interpreted list is a cycle of tail branches
BranchCycle == LoopsBack(Slot(0), {})

\* C17: interpreting a list whose chain of tail branches leads back to
\* itself through commands that neither end the list nor abort never halts:
\* it neither returns nor aborts, and after any number of commands a next
\* command is executed.
C17_BranchCycleNeverHalts ==
  BranchCycle => /\ status = "running"
                 /\ steps < stepLimit => ENABLED DlNext

\* a no-op, a triangle and a branch back to the first command: the run is in
\* its second round
C17_Witness ==
  /\ mem[Slot(0)] = Cmd(<<3, 0, 0, 0>>, 0)
  /\ mem[Slot(1)] = Cmd(<<191, 0, 0, 0>>, TriOperand)
  /\ mem[Slot(2)] = Cmd(<<6, 1, 0, 0>>, RefBase)
  /\ steps = 5
  /\ dlStack = <<Slot(2)>>
  /\ Len(draws) = 2
  /\ status = "running"

\* the commands that can follow the command at address a: the next one of
\* its list, the target of its branch, or both for a call
Successors(a) ==
  IF a \notin DOMAIN mem THEN {}
  ELSE LET cmd == mem[a] IN
    IF cmd.w0 = CallWord THEN {Rebased(cmd.w1), a + CmdWidth}
    ELSE IF cmd.w0 = BranchWord THEN {Rebased(cmd.w1)}
    ELSE IF CmdKind(cmd.w0) \in {"noop", "vertex", "triangle"} THEN {a + CmdWidth}
    ELSE {}

\* the addresses reached from those of S in at most n steps
RECURSIVE ReachedFrom(_, _)
ReachedFrom(S, n) ==
  IF n = 0 THEN S ELSE ReachedFrom(S \cup UNION {Successors(a) : a \in S}, n - 1)

\* no command reached from the entry comes back to itself
Acyclic ==
  \A a \in ReachedFrom({Slot(0)}, 3) : a \notin ReachedFrom(Successors(a), 3)

\* the longest chain of nested calls of the list at address a, in a stream
\* without a cycle
RECURSIVE NestedCalls(_)
NestedCalls(a) ==
  IF a \notin DOMAIN mem THEN 0
  ELSE LET cmd == mem[a] IN
    IF cmd.w0 = CallWord
    THEN LET inner == 1 + NestedCalls(Rebased(cmd.w1))
             after == NestedCalls(a + CmdWidth)
         IN IF inner > after THEN inner ELSE after
    ELSE IF cmd.w0 = BranchWord THEN NestedCalls(Rebased(cmd.w1))
    ELSE IF CmdKind(cmd.w0) \in {"noop", "vertex", "triangle"} THEN NestedCalls(a + CmdWidth)
    ELSE 0

Halted == status \in {"returned", "aborted"}

\* C18: on a stream in which every list reaches its end or a fatal command
\* and the call and branch targets form no cycle, the top-level
\* interpretation eventually returns or aborts, and the number of nested
\* calls open is never above the longest chain of nested calls of the stream.
C18_AcyclicStreamHalts ==
  /\ [](Acyclic => Len(dlStack) - 1 <= NestedCalls(Slot(0)))
  /\ Acyclic ~> Halted

\* a call of a list that calls a list: both calls have returned, two calls
\* were open at once and the run has returned
C18_Witness ==
  /\ mem[Slot(0)] = Cmd(<<6, 0, 0, 0>>, RefBase + CmdWidth)
  /\ mem[Slot(1)] = Cmd(<<6, 0, 0, 0>>, Slot(2))
  /\ mem[Slot(2)] = Cmd(<<184, 0, 0, 0>>, 0)
  /\ NestedCalls(Slot(0)) = 2
  /\ status = "returned"
  /\ steps = 7

\* read_render_args of the current call has failed
DecodeFailed == decodeOut \in DecodeStages

\* C19: all decoding comes before any output: when the decoding of the
\* renderer handle, the camera, current_state or path_states fails, render
\* reports the failure and has built no scene, has not invoked the renderer
\* or changed its matrices, has not touched the vertex cache and has issued
\* no draw.
C19_DecodeFailureHasNoEffect ==
  /\ [](DecodeFailed =>
          /\ renderPc = "failed"
          /\ scene = <<>>
          /\ surfaces = <<>>
          /\ transforms = <<>>
          /\ game_view_matrix = NoMatrix
          /\ status = "idle")
  /\ [][DecodeFailed' =>
          UNCHANGED <<renderer, loaded_vertices, vecSize, draws, dlStack, status, steps>>]_vars

\* a second call whose camera cannot be decoded, after a call that rendered
\* and drew a triangle: the renderer and the draws are those of the first
C19_Witness ==
  /\ renderCalls = 2
  /\ decodeOut = "camera"
  /\ renderPc = "failed"
  /\ renderer.renders = 1
  /\ Len(draws) = 1

\* the number of calls of interpret_display_list that are active
Depth == Len(dlStack)

\* C20: a tail branch executed in a nested sub-list leaves the call depth
\* and every caller's cursor as they are; an end-of-list executed in a nested
\* list closes exactly one nesting level and control goes on in the list
\* that issued the enclosing 0x06000000 call, at the command after that
\* call, wherever the branches of the nested list have led.
C20_BranchKeepsDepthEndClosesOne ==
  [][ InterpreterStep =>
        /\ Executed.w0 = BranchWord =>
              /\ Depth' = Depth
              /\ \A i \in 1..(Depth - 1) : dlStack'[i] = dlStack[i]
              /\ dlStack'[Depth] = Rebased(Executed.w1)
        /\ (CmdKind(Executed.w0) = "end" /\ Depth > 1) =>
              /\ Depth' = Depth - 1
              /\ mem[dlStack[Depth - 1]].w0 = CallWord
              /\ dlStack'[Depth - 1] = dlStack[Depth - 1] + CmdWidth
              /\ \A i \in 1..(Depth - 2) : dlStack'[i] = dlStack[i]
              /\ status' = "running"
        /\ (CmdKind(Executed.w0) = "end" /\ Depth = 1) => status' = "returned"
        /\ Depth' < Depth => CmdKind(Executed.w0) = "end" ]_vars

\* the first command calls the third, which branches to the second, an
\* end-of-list: the run is back in the first list, at its second command
C20_Witness ==
  /\ mem[Slot(0)] = Cmd(<<6, 0, 0, 0>>, Slot(2))
  /\ mem[Slot(2)] = Cmd(<<6, 1, 0, 0>>, RefBase + CmdWidth)
  /\ mem[Slot(1)] = Cmd(<<184, 0, 0, 0>>, 0)
  /\ steps = 3
  /\ dlStack = <<Slot(1)>>
  /\ status = "running"

=============================================================================
